---- MODULE Spec2Model ----
(***************************************************************************)
(* Model of the SERP fetching engine of stream_seo.py: the three searcher  *)
(* classes (StableSerpSearcher, SequentialSerpSearcher, BatchSerpSearcher) *)
(* and the run they perform for a list of keywords and a number of pages.  *)
(*                                                                         *)
(* One searcher object is modelled.  A run is started by one of the three  *)
(* Start actions, which fixes the strategy and the inputs; the provider's  *)
(* answer to every single request is chosen nondeterministically.          *)
(***************************************************************************)
EXTENDS Integers, Sequences, FiniteSets, TLC

(* ------------------------------ bounds -------------------------------- *)

\* A run has at most MaxKeywords keywords and at most MaxTasks (keyword, page)
\* tasks: Len(keywords) * max_pages <= MaxTasks.
MaxKeywords == 2
MaxTasks == 3
\* Number of nested SequentialSerpSearcher._fetch_single calls the interpreter
\* allows before the next call raises RecursionError (scaled down).
RecursionLimit == 4
\* find_rankings is given at most MaxSites tracked sites.
MaxSites == 2
\* analyze_keyword_competition is given at most MaxRows ranking rows.
MaxRows == 2
\* A text given to normalize_domain is made of at most MaxPieces pieces.
MaxPieces == 4

(* ------------------------- program constants -------------------------- *)

\* StableSerpSearcher.max_retries as the caller passes it (and its default).
max_retries == 3
\* BatchSerpSearcher._fetch_single: for attempt in range(3).
BatchAttempts == 3
\* "num": 10 results per page, the factor of actual_rank.
PerPage == 10
\* result.get("position", 0): the position used when the provider omits it.
DefaultPosition == 0
\* keyword_order_map.get(keyword, 9999): the order of a keyword the map lacks.
MissingOrder == 9999

(* ------------------------------- text --------------------------------- *)

\* A Python str is the sequence of its characters, each a one-character
\* string.
Https == <<"h", "t", "t", "p", "s", ":", "/", "/">>
Http == <<"h", "t", "t", "p", ":", "/", "/">>
Www == <<"w", "w", "w", ".">>
Slash == "/"
Blank == " "

\* str.lower(), for the letters that occur in the inputs.
LowerCase(c) ==
    CASE c = "A" -> "a"
      [] c = "C" -> "c"
      [] c = "M" -> "m"
      [] c = "O" -> "o"
      [] c = "W" -> "w"
      [] OTHER -> c

\* Mutant of Lower: the letters keep their case.
LowerSkipped(s) == s

Lower(s) == [j \in 1..Len(s) |-> LowerCase(s[j])]

\* str.strip(): leading and trailing whitespace goes.
RECURSIVE LStrip(_)
LStrip(s) ==
    IF s # <<>> /\ Head(s) = Blank THEN LStrip(Tail(s)) ELSE s

\* str.rstrip(c) (and the right half of str.strip()): every trailing c goes.
RECURSIVE RStrip(_, _)
RStrip(s, c) ==
    IF s # <<>> /\ s[Len(s)] = c THEN RStrip(SubSeq(s, 1, Len(s) - 1), c) ELSE s

Strip(s) == RStrip(LStrip(s), Blank)

\* str.startswith(prefix)
StartsWith(s, prefix) ==
    Len(s) >= Len(prefix) /\ SubSeq(s, 1, Len(prefix)) = prefix

\* str.replace(old, ""): every occurrence of old, found from left to right
\* without overlap, goes.
RECURSIVE Remove(_, _)
Remove(s, old) ==
    IF s = <<>> THEN <<>>
    ELSE IF StartsWith(s, old) THEN Remove(SubSeq(s, Len(old) + 1, Len(s)), old)
    ELSE <<Head(s)>> \o Remove(Tail(s), old)

\* needle in hay
Contains(hay, needle) ==
    \E j \in 0..(Len(hay) - Len(needle)) :
        SubSeq(hay, j + 1, j + Len(needle)) = needle

\* if domain.startswith("www."): domain = domain[4:]
DropWww(s) ==
    IF StartsWith(s, Www) THEN SubSeq(s, Len(Www) + 1, Len(s)) ELSE s

normalize_domain(domain) ==
    DropWww(RStrip(Remove(Remove(Strip(Lower(domain)), Https), Http), Slash))

(* ------------------------------ inputs -------------------------------- *)

Keywords == {"a", "b"}

\* The values max_concurrent, batch_size and max_workers are drawn from.
Concurrencies == {1, 2}

\* Ordered keyword lists, duplicates allowed (the caller does not deduplicate).
\* No step depends on what a keyword is, only on whether two keywords are
\* equal, so of two lists that differ by renaming the keywords one is kept:
\* the one that starts with "b" (which makes <<"b", "a">> an input list).
KeywordLists ==
    {kws \in UNION {[1..n -> Keywords] : n \in 1..MaxKeywords} : kws[1] = "b"}

\* The "organic" lists the provider may return with HTTP 200.  Items come in
\* the order the provider sends them, which need not be the position order,
\* and an item may lack its "position".
Bodies ==
    { <<>>,
      << [link |-> Https \o Www \o <<"a", ".", "c", "o", "m", "/", "p">>, position |-> 2],
         [link |-> Http \o <<"b", ".", "c", "o", "m", "/", "x">>] >> }

\* The "organic" lists of a provider that gives every result of a page its
\* position, a different one in 1..10 for each.
PositionedBodies ==
    { <<>>,
      << [link |-> Https \o Www \o <<"a", ".", "c", "o", "m", "/", "p">>, position |-> 2],
         [link |-> Http \o <<"b", ".", "c", "o", "m", "/", "x">>, position |-> 1] >> }

\* What one request can end in: HTTP 200 with a body, HTTP 429, another
\* status, or an exception raised by the post (a timeout, a network error, a
\* body that is not JSON).
Responses ==
    {[kind |-> "ok", body |-> b] : b \in Bodies \cup PositionedBodies}
    \cup {[kind |-> k, body |-> <<>>] : k \in {"r429", "other", "exc"}}

\* The pieces the texts given to normalize_domain are made of: the schemes,
\* "www.", a slash, a blank, a domain in lower and in upper case.
Pieces ==
    { Https, Http, Www, <<Slash>>, <<Blank>>,
      <<"a", ".", "c", "o", "m">>, <<"A", ".", "C", "O", "M">> }

RECURSIVE Concat(_)
Concat(ps) == IF ps = <<>> THEN <<>> ELSE Head(ps) \o Concat(Tail(ps))

Texts == {Concat(ps) : ps \in UNION {[1..n -> Pieces] : n \in 0..MaxPieces}}

(* ------------------------------ state --------------------------------- *)

VARIABLES
    pc,            \* "idle", "running" or "done" (search_all has returned)
    strategy,      \* "none", "stable", "sequential" or "batch"
    keywords,      \* the keyword list of the run
    max_pages,     \* the number of pages of the run
    max_concurrent,\* Stable: semaphore size; Batch: max_workers
    batch_size,    \* Batch: batch_size
    t,             \* the (keyword, page) tasks, by index in tasks_info
    sem,           \* Stable: free permits of the semaphore
    doneq,         \* Stable: finished coroutines in completion order
    cur,           \* Sequential: index of the task in progress
    batch_idx,     \* Batch: index of the batch in progress (1-based)
    all_results,   \* the map keyword -> result list
    completed,     \* the local counter of search_all
    success_count, \* self.success_count
    fail_count,    \* self.fail_count
    calls,         \* the calls of progress_callback made so far
    resp,          \* the provider response the last step delivered, if it
                   \* delivered one, and the task it went to
    provider,      \* the SERP provider the requests go to: the "organic"
                   \* lists it may send
    reference,     \* the outcome of an earlier run with the same inputs
                   \* against the same provider, kept for comparison
    fn,            \* the call of a ranking tool function: its name, its
                   \* arguments and what it returned
    session        \* the page of the user who clicks the tracking button:
                   \* how far the handler of the click has come, the inputs
                   \* it read, the error it showed,
                   \* st.session_state.current_results and the records of
                   \* the active project

\* The state of the searcher and its run.
searchvars ==
    <<pc, strategy, keywords, max_pages, max_concurrent, batch_size, t, sem,
      doneq, cur, batch_idx, all_results, completed, success_count,
      fail_count, calls, resp>>

vars == <<searchvars, fn, session, provider, reference>>

\* The inputs of the run, fixed by its Start action.
inputs == <<strategy, keywords, max_pages, max_concurrent, batch_size>>

(* ------------------------------ helpers ------------------------------- *)

\* A value that may be None: None itself, or Some(v) for the value v.
None == <<>>
Some(v) == <<v>>

Range(s) == {s[i] : i \in 1..Len(s)}

\* tasks_info = [(kw, page) for kw in keywords for page in range(1, max_pages + 1)]
NumTasks == Len(keywords) * max_pages
TaskIds == 1..NumTasks
TaskKwIdx(i) == ((i - 1) \div max_pages) + 1
TaskKw(i) == keywords[TaskKwIdx(i)]
TaskPage(i) == ((i - 1) % max_pages) + 1

\* Mutant of ActualRank: the pages are counted from 0, so page 1 already
\* adds 10.
ActualRankPageOneAdds(page, item) ==
    page * PerPage
    + (IF "position" \in DOMAIN item THEN item.position ELSE DefaultPosition)

\* result["actual_rank"] = (page - 1) * 10 + result.get("position", 0)
ActualRank(page, item) ==
    (page - 1) * PerPage
    + (IF "position" \in DOMAIN item THEN item.position ELSE DefaultPosition)

\* The loop over the results of a 200 response: every item gets the keys
\* actual_rank and page.
Annotate(body, page) ==
    [j \in 1..Len(body) |->
        [actual_rank |-> ActualRank(page, body[j]), page |-> page] @@ body[j]]

\* list.sort(key=lambda x: x.get("actual_rank", 999)): a stable sort, so x
\* goes after every element of the same rank.
RECURSIVE InsertByRank(_, _)
InsertByRank(x, s) ==
    IF s = <<>> THEN <<x>>
    ELSE IF x.actual_rank < Head(s).actual_rank THEN <<x>> \o s
    ELSE <<Head(s)>> \o InsertByRank(x, Tail(s))

RECURSIVE SortList(_)
SortList(s) ==
    IF s = <<>> THEN <<>>
    ELSE InsertByRank(s[Len(s)], SortList(SubSeq(s, 1, Len(s) - 1)))

\* Mutant of SortByRank: the list is left in the order of arrival.
SortByRankSkipped(s) == s

SortByRank(s) == SortList(s)

\* Mutant of SortAll: a keyword without results loses its key.
SortAllDropEmpty(m) ==
    [kw \in {k \in DOMAIN m : m[k] # <<>>} |-> SortByRank(m[kw])]

\* for keyword in all_results: all_results[keyword].sort(...)
SortAll(m) == [kw \in DOMAIN m |-> SortByRank(m[kw])]

\* What the provider may answer to the outstanding request of a task that
\* has posted n requests: any failure or any of its "organic" lists; a
\* provider with a script answers the n-th request of every task with the
\* n-th response of the script, and all later requests with the last.
Answers(n) ==
    IF provider.script = None
    THEN {r \in Responses : r.kind = "ok" => r.body \in provider.bodies}
    ELSE LET script == provider.script[1]
         IN {script[IF n < Len(script) THEN n ELSE Len(script)]}

\* fn while no tool function was called.
NoCall == [op |-> "none", args |-> <<>>, out |-> <<>>]

\* resp after a step that delivers no response.
NoResp == [task |-> 0, kind |-> "none", body |-> <<>>]

\* resp after the step that delivers response r to task i.
Delivered(i, r) == [task |-> i, kind |-> r.kind, body |-> r.body]

\* A task.  While its coroutine, call or thread runs:
\*   attempt  the loop variable of the retry loop (Sequential: how deep the
\*            recursion of _fetch_single is),
\*   reqs     the requests it has posted so far,
\*   seen     what its failed requests so far were: "none" of them yet, all
\*            "r429", all "transient" (another status or an exception), or
\*            "mixed",
\*   delay    the seconds of the sleep it is in,
\*   reg      the counter value read by the first half of a += 1.
\* When it has ended: success and results are what it returned; asked tells
\* that it has posted a request at all.
NewTask ==
    [st |-> "new", attempt |-> 0, reqs |-> 0, seen |-> "none", delay |-> 0,
     reg |-> 0, asked |-> FALSE, success |-> FALSE, results |-> <<>>]

\* seen after one more failed request of kind k.
Seen(h, k) ==
    LET c == IF k = "r429" THEN "r429" ELSE "transient"
    IN IF h = "none" \/ h = c THEN c ELSE "mixed"

\* Mutant of Post: a retry does not advance the attempt of the task.
PostSameAttempt(task, a) ==
    [task EXCEPT !.st = "inflight", !.reqs = 1, !.delay = 0, !.asked = TRUE]

\* The task posts a request, as attempt number a.
Post(task, a) ==
    [task EXCEPT !.st = "inflight", !.attempt = a, !.reqs = @ + 1, !.delay = 0,
                 !.asked = TRUE]

\* The task's coroutine, call or thread ends with the given outcome: its
\* local variables are gone, what it returned stays.
Ended(task, st, ok, res) ==
    [task EXCEPT !.st = st, !.success = ok, !.results = res,
                 !.attempt = 0, !.reqs = 0, !.seen = "none", !.delay = 0,
                 !.reg = 0]

\* Mutant of Callback: progress is reported before the task is counted.
CallbackBeforeCount(c, total, kw) ==
    Append(calls, [completed |-> c - 1, total |-> total, keyword |-> kw])

\* progress_callback(completed, total, keyword)
Callback(c, total, kw) ==
    Append(calls, [completed |-> c, total |-> total, keyword |-> kw])

\* session while the tracking button was not clicked: nothing shown,
\* st.session_state.current_results = None, no record in the project.
NoError == ""
NoClick ==
    [stage |-> "none", error |-> NoError, keywords |-> <<>>, all_sites |-> <<>>,
     max_pages |-> 0, current_results |-> None, records |-> <<>>]

(* ------------------------------- Init --------------------------------- *)

\* The searcher object after __init__: no run yet, counters at 0.
NewSearcher ==
    /\ pc = "idle"
    /\ strategy = "none"
    /\ keywords = <<>>
    /\ max_pages = 0
    /\ max_concurrent = 0
    /\ batch_size = 0
    /\ t = <<>>
    /\ sem = 0
    /\ doneq = <<>>
    /\ cur = 0
    /\ batch_idx = 0
    /\ all_results = <<>>
    /\ completed = 0
    /\ success_count = 0
    /\ fail_count = 0
    /\ calls = <<>>
    /\ resp = NoResp

\* A provider that sends what it likes: any failure, any list of bodies.
FreeProvider(bodies) == [bodies |-> bodies, script |-> None]

\* A new searcher, a page on which nothing was clicked, and the provider.
Init ==
    /\ NewSearcher
    /\ fn = NoCall
    /\ session = NoClick
    /\ provider = FreeProvider(Bodies)
    /\ reference = None

\* The same with a provider that gives every result its position.
InitPositioned ==
    /\ NewSearcher
    /\ fn = NoCall
    /\ session = NoClick
    /\ provider = FreeProvider(PositionedBodies)
    /\ reference = None

\* The searcher a run of class cls is made on: one that is constructed for
\* the run, or the object of that class an earlier run was made on.
OwnSearcher(cls) == strategy \in {"none", cls}

\* A run that is compared with an earlier one is given the keyword list and
\* the max_pages of that run.
SameInputs(kws, P) ==
    reference # None
    => kws = reference[1].keywords /\ P = reference[1].max_pages

\* The inputs of a run the model explores.
ValidInput(kws, P) ==
    /\ kws \in KeywordLists
    /\ P \in 1..MaxTasks
    /\ Len(kws) * P <= MaxTasks

(* ------------------------- the tracking button ------------------------ *)

\* What the user may have entered when the button is clicked: the keyword
\* lines (none, or a list), the lines of the two site text areas joined
\* (my_sites + competitors: none, or one site), and whether an API key.
KeywordInputs == {<<>>} \cup KeywordLists
SiteInputs == {<<>>, << <<"a", ".", "c", "o", "m">> >>}

\* Mutant of InputError: the list of sites is not checked.
InputErrorSitesUnchecked(api_key, kws, all_sites) ==
    IF ~api_key THEN "api_key"
    ELSE IF kws = <<>> THEN "keywords"
    ELSE NoError

\* The checks of the click handler, in their order: the message of the
\* first that fails (st.error followed by st.stop), or NoError.
InputError(api_key, kws, all_sites) ==
    IF ~api_key THEN "api_key"
    ELSE IF kws = <<>> THEN "keywords"
    ELSE IF all_sites = <<>> THEN "sites"
    ELSE NoError

\* The click handler stops at one of its checks: the error is shown and
\* the script run ends, before a searcher exists.  (P is the value of the
\* slider of the number of pages, which is 1 at least.)
StartTrackingStop(api_key, kws, all_sites, P) ==
    /\ pc = "idle"
    /\ session.stage = "none"
    /\ api_key \in BOOLEAN
    /\ kws \in KeywordInputs
    /\ all_sites \in SiteInputs
    /\ P \in 1..MaxTasks
    /\ InputError(api_key, kws, all_sites) # NoError
    /\ session' = [session EXCEPT !.stage = "stopped",
                                   !.error = InputError(api_key, kws, all_sites),
                                   !.keywords = kws,
                                   !.all_sites = all_sites,
                                   !.max_pages = P]
    /\ UNCHANGED <<searchvars, fn, provider, reference>>

\* The click handler passes its checks with the keywords kws and P pages,
\* and goes on to construct a searcher and to call its search_all.
TrackingStarts(kws, P) ==
    /\ session.stage = "none"
    /\ \E api_key \in BOOLEAN, all_sites \in SiteInputs :
          /\ InputError(api_key, kws, all_sites) = NoError
          /\ session' = [session EXCEPT !.stage = "searching",
                                         !.keywords = kws,
                                         !.all_sites = all_sites,
                                         !.max_pages = P]

(* ----------------------- StableSerpSearcher --------------------------- *)

\* search_all_async up to the first await: counters reset, tasks_info built,
\* the semaphore created, all_results = {kw: [] for kw in keywords}, every
\* coroutine created.
StableStart(kws, P, mc) ==
    /\ pc = "idle"
    /\ OwnSearcher("stable")
    /\ ValidInput(kws, P)
    /\ SameInputs(kws, P)
    /\ TrackingStarts(kws, P)
    /\ mc \in Concurrencies
    /\ strategy = "stable" => mc = max_concurrent
    /\ pc' = "running"
    /\ strategy' = "stable"
    /\ keywords' = kws
    /\ max_pages' = P
    /\ max_concurrent' = mc
    /\ t' = [i \in 1..(Len(kws) * P) |-> NewTask]
    /\ sem' = mc
    /\ doneq' = <<>>
    /\ all_results' = [kw \in Range(kws) |-> <<>>]
    /\ completed' = 0
    /\ success_count' = 0
    /\ fail_count' = 0
    /\ calls' = <<>>
    /\ resp' = NoResp
    /\ UNCHANGED <<fn, provider, reference, batch_size, cur, batch_idx>>

\* Mutant of SemaphoreFree: the coroutines do not wait for a permit.
SemaphoreIgnored == TRUE

\* async with semaphore: the coroutine may enter when a permit is free.
SemaphoreFree == sem > 0

\* The coroutine gets a permit and starts its jitter sleep.
StableAcquire(i) ==
    /\ pc = "running" /\ strategy = "stable"
    /\ i \in TaskIds
    /\ t[i].st = "new"
    /\ SemaphoreFree
    /\ sem' = sem - 1
    /\ t' = [t EXCEPT ![i].st = "held"]
    /\ resp' = NoResp
    /\ UNCHANGED <<fn, provider, reference, session, pc, inputs, doneq, cur, batch_idx, all_results, completed,
                   success_count, fail_count, calls>>

\* The jitter sleep is over: attempt 0 posts its request.
StableSend(i) ==
    /\ pc = "running" /\ strategy = "stable"
    /\ i \in TaskIds
    /\ t[i].st = "held"
    /\ t' = [t EXCEPT ![i] = Post(@, 0)]
    /\ resp' = NoResp
    /\ UNCHANGED <<fn, provider, reference, session, pc, inputs, sem, doneq, cur, batch_idx, all_results,
                   completed, success_count, fail_count, calls>>

\* The coroutine returns {"success": True, "results": results} after
\* self.success_count += 1, leaving the semaphore block.
StableSucceed(i, body) ==
    /\ success_count' = success_count + 1
    /\ t' = [t EXCEPT ![i] = Ended(@, "returned", TRUE,
                                   Annotate(body, TaskPage(i)))]
    /\ sem' = sem + 1
    /\ doneq' = Append(doneq, i)
    /\ UNCHANGED fail_count

\* The coroutine returns {"success": False, "results": []} after
\* self.fail_count += 1, leaving the semaphore block.
StableFail(i) ==
    /\ fail_count' = fail_count + 1
    /\ t' = [t EXCEPT ![i] = Ended(@, "returned", FALSE, <<>>)]
    /\ sem' = sem + 1
    /\ doneq' = Append(doneq, i)
    /\ UNCHANGED success_count

\* After a failed request of kind k the coroutine starts asyncio.sleep(d).
StableSleep(i, k, d) ==
    /\ t' = [t EXCEPT ![i].st = "sleep", ![i].delay = d, ![i].seen = Seen(@, k)]
    /\ UNCHANGED <<sem, doneq, success_count, fail_count>>

\* The response of the outstanding request of task i arrives.
StableRespond(i, r) ==
    /\ pc = "running" /\ strategy = "stable"
    /\ i \in TaskIds
    /\ t[i].st = "inflight"
    /\ r \in Answers(t[i].reqs)
    /\ CASE r.kind = "ok" -> StableSucceed(i, r.body)
         [] r.kind = "r429" -> StableSleep(i, r.kind, (t[i].attempt + 1) * 2)
         [] OTHER ->
              IF t[i].attempt < max_retries - 1
              THEN StableSleep(i, r.kind, 1)
              ELSE StableFail(i)
    /\ resp' = Delivered(i, r)
    /\ UNCHANGED <<fn, provider, reference, session, pc, inputs, cur, batch_idx, all_results, completed, calls>>

\* The sleep before a retry is over: the loop goes to the next attempt and
\* posts again, or ends when range(max_retries) is used up.
StableWake(i) ==
    /\ pc = "running" /\ strategy = "stable"
    /\ i \in TaskIds
    /\ t[i].st = "sleep"
    /\ IF t[i].attempt + 1 < max_retries
       THEN /\ t' = [t EXCEPT ![i] = Post(@, t[i].attempt + 1)]
            /\ UNCHANGED <<sem, doneq, success_count, fail_count>>
       ELSE StableFail(i)
    /\ resp' = NoResp
    /\ UNCHANGED <<fn, provider, reference, session, pc, inputs, cur, batch_idx, all_results, completed, calls>>

\* One round of: for coro in asyncio.as_completed(coroutines).
StableCollect ==
    /\ pc = "running" /\ strategy = "stable"
    /\ doneq # <<>>
    /\ LET i == Head(doneq)
           kw == TaskKw(i)
       IN /\ completed' = completed + 1
          /\ all_results' =
                 IF t[i].success /\ t[i].results # <<>>
                 THEN [all_results EXCEPT ![kw] = @ \o t[i].results]
                 ELSE all_results
          /\ calls' = Callback(completed + 1, NumTasks, kw)
          /\ t' = [t EXCEPT ![i].st = "collected"]
    /\ doneq' = Tail(doneq)
    /\ resp' = NoResp
    /\ UNCHANGED <<fn, provider, reference, session, pc, inputs, sem, cur, batch_idx, success_count, fail_count>>

\* All coroutines were consumed: the session closes, every list is sorted
\* and search_all returns.
StableFinish ==
    /\ pc = "running" /\ strategy = "stable"
    /\ \A i \in TaskIds : t[i].st = "collected"
    /\ all_results' = SortAll(all_results)
    /\ pc' = "done"
    /\ resp' = NoResp
    /\ UNCHANGED <<fn, provider, reference, session, inputs, t, sem, doneq, cur, batch_idx, completed,
                   success_count, fail_count, calls>>

(* --------------------- SequentialSerpSearcher ------------------------- *)

\* all_results[keyword] = [] at the head of the keyword loop: the key is
\* added, or its list replaced when the keyword occurred before.
WithFreshKey(m, kw) ==
    [k \in DOMAIN m \cup {kw} |-> IF k = kw THEN <<>> ELSE m[k]]

\* time.sleep(2): the seconds _fetch_single sleeps after a 429, before it
\* calls itself.
SeqBackoff == 2

\* Whether _fetch_single calls itself again after a 429 at nesting depth d,
\* rather than running into the interpreter's recursion limit.
SeqRetries429(d) == d < RecursionLimit

\* Mutant of SeqNextTask: an empty page ends the page loop of its keyword.
SeqNextTaskStopOnEmpty(i, res) ==
    IF res = <<>> THEN TaskKwIdx(i) * max_pages + 1 ELSE i + 1

\* The task that follows task i in the two nested loops of search_all, when
\* _fetch_single returned res for task i: the next page of the keyword, or
\* page 1 of the next keyword.  The page loop has no break.
SeqNextTask(i, res) == i + 1

\* The part of search_all that follows the return of _fetch_single for task
\* i with result list res: extend, count, report, sleep; after the last page
\* of a keyword its list is sorted; then the next task posts its request (a
\* new keyword first gets all_results[keyword] = []), or search_all returns.
\* (ok records whether _fetch_single returned from its 200 branch.)
SeqAfterFetch(i, ok, res) ==
    LET kw == TaskKw(i)
        nxt == SeqNextTask(i, res)
        \* the page loop of the keyword is over
        last == nxt > NumTasks \/ TaskKwIdx(nxt) # TaskKwIdx(i)
        ext == [all_results EXCEPT ![kw] = @ \o res]
        srt == IF last THEN [ext EXCEPT ![kw] = SortByRank(@)] ELSE ext
    IN /\ completed' = completed + 1
       /\ calls' = Callback(completed + 1, Len(keywords) * max_pages, kw)
       /\ IF nxt > NumTasks
          THEN /\ all_results' = srt
               /\ pc' = "done"
               /\ cur' = cur
               /\ t' = [t EXCEPT ![i] = Ended(@, "collected", ok, res)]
          ELSE /\ all_results' = IF last THEN WithFreshKey(srt, TaskKw(nxt)) ELSE srt
               /\ pc' = pc
               /\ cur' = nxt
               /\ t' = [t EXCEPT ![i] = Ended(@, "collected", ok, res),
                                 ![nxt] = Post(@, 0)]

\* search_all up to the first request: counters reset, all_results = {},
\* all_results[keywords[0]] = [], and _fetch_single(keywords[0], 1) posts.
SeqStart(kws, P) ==
    /\ pc = "idle"
    /\ OwnSearcher("sequential")
    /\ ValidInput(kws, P)
    /\ SameInputs(kws, P)
    /\ TrackingStarts(kws, P)
    /\ pc' = "running"
    /\ strategy' = "sequential"
    /\ keywords' = kws
    /\ max_pages' = P
    /\ t' = [i \in 1..(Len(kws) * P) |->
                IF i = 1 THEN Post(NewTask, 0) ELSE NewTask]
    /\ cur' = 1
    /\ all_results' = WithFreshKey(<<>>, kws[1])
    /\ completed' = 0
    /\ success_count' = 0
    /\ fail_count' = 0
    /\ calls' = <<>>
    /\ resp' = NoResp
    /\ UNCHANGED <<fn, provider, reference, max_concurrent, batch_size, sem, doneq, batch_idx>>

\* The response of the one outstanding request arrives: _fetch_single runs to
\* its return (or to the sleep before its recursive call), and search_all
\* runs on to the next request.
SeqRespond(r) ==
    /\ pc = "running" /\ strategy = "sequential"
    /\ t[cur].st = "inflight"
    /\ r \in Answers(t[cur].reqs)
    /\ CASE r.kind = "ok" ->
              /\ success_count' = success_count + 1
              /\ fail_count' = fail_count
              /\ SeqAfterFetch(cur, TRUE, Annotate(r.body, TaskPage(cur)))
         [] r.kind = "r429" /\ SeqRetries429(t[cur].attempt) ->
              \* time.sleep(2)
              /\ t' = [t EXCEPT ![cur].st = "sleep",
                                ![cur].delay = SeqBackoff,
                                ![cur].seen = Seen(@, r.kind)]
              /\ UNCHANGED <<pc, cur, all_results, completed, success_count,
                             fail_count, calls>>
         [] OTHER ->
              \* another status, an exception, or the RecursionError of one
              \* nested call too many, which except Exception catches
              /\ fail_count' = fail_count + 1
              /\ success_count' = success_count
              /\ SeqAfterFetch(cur, FALSE, <<>>)
    /\ resp' = Delivered(cur, r)
    /\ UNCHANGED <<fn, provider, reference, session, inputs, sem, doneq, batch_idx>>

\* time.sleep(2) is over: return self._fetch_single(keyword, page), whose
\* nested call posts the request again.
SeqWake ==
    /\ pc = "running" /\ strategy = "sequential"
    /\ t[cur].st = "sleep"
    /\ t' = [t EXCEPT ![cur] = Post(@, t[cur].attempt + 1)]
    /\ resp' = NoResp
    /\ UNCHANGED <<fn, provider, reference, session, pc, inputs, sem, doneq, cur,
                   batch_idx, all_results, completed, success_count,
                   fail_count, calls>>

(* ------------------------ BatchSerpSearcher --------------------------- *)

\* batches = [all_tasks[i:i + batch_size] for i in range(0, len, batch_size)]
NumBatches == (NumTasks + batch_size - 1) \div batch_size
BatchOf(i) == ((i - 1) \div batch_size) + 1
BatchTasks(b) == {i \in TaskIds : BatchOf(i) = b}

\* Mutant of Running: the executor takes no account of its busy threads.
RunningUncounted == {}

\* The tasks a worker thread of the executor is executing.
Running == {i \in TaskIds : t[i].st \in {"inflight", "sleep", "store"}}

\* search_all up to the submission of the first batch to its executor.
BatchStart(kws, P, bs, mw) ==
    /\ pc = "idle"
    /\ OwnSearcher("batch")
    /\ ValidInput(kws, P)
    /\ SameInputs(kws, P)
    /\ TrackingStarts(kws, P)
    /\ bs \in Concurrencies
    /\ mw \in Concurrencies
    /\ strategy = "batch" => bs = batch_size /\ mw = max_concurrent
    /\ pc' = "running"
    /\ strategy' = "batch"
    /\ keywords' = kws
    /\ max_pages' = P
    /\ max_concurrent' = mw
    /\ batch_size' = bs
    /\ batch_idx' = 1
    /\ t' = [i \in 1..(Len(kws) * P) |->
                IF i <= bs THEN [NewTask EXCEPT !.st = "queued"] ELSE NewTask]
    /\ all_results' = [kw \in Range(kws) |-> <<>>]
    /\ completed' = 0
    /\ success_count' = 0
    /\ fail_count' = 0
    /\ calls' = <<>>
    /\ resp' = NoResp
    /\ UNCHANGED <<fn, provider, reference, sem, doneq, cur>>

\* A free worker thread of the executor takes the oldest submitted task and
\* posts the request of attempt 0.
BatchRun(i) ==
    /\ pc = "running" /\ strategy = "batch"
    /\ i \in TaskIds
    /\ t[i].st = "queued"
    /\ \A j \in TaskIds : t[j].st = "queued" => i <= j
    /\ Cardinality(Running) < max_concurrent
    /\ t' = [t EXCEPT ![i] = Post(@, 0)]
    /\ resp' = NoResp
    /\ UNCHANGED <<fn, provider, reference, session, pc, inputs, sem, doneq, cur, batch_idx, all_results,
                   completed, success_count, fail_count, calls>>

\* The thread got its 200 response: the results are annotated and
\* self.success_count is read for self.success_count += 1.
BatchSucceed(i, body) ==
    t' = [t EXCEPT ![i] = [t[i] EXCEPT !.st = "store", !.success = TRUE,
                                        !.results = Annotate(body, TaskPage(i)),
                                        !.reg = success_count]]

\* The attempts are used up: the thread reads self.fail_count for
\* self.fail_count += 1.
BatchGiveUp(i) ==
    t' = [t EXCEPT ![i] = [t[i] EXCEPT !.st = "store", !.success = FALSE,
                                        !.results = <<>>, !.reg = fail_count]]

\* After a failed request of kind k the loop goes to its next attempt, if
\* range(3) has one, and posts again.
BatchNextAttempt(i, k) ==
    IF t[i].attempt + 1 < BatchAttempts
    THEN t' = [t EXCEPT ![i] = [Post(@, t[i].attempt + 1)
                                 EXCEPT !.seen = Seen(@, k)]]
    ELSE BatchGiveUp(i)

\* After a failed request of kind k the thread starts time.sleep(d).
BatchSleep(i, k, d) ==
    t' = [t EXCEPT ![i].st = "sleep", ![i].delay = d, ![i].seen = Seen(@, k)]

\* The response of the outstanding request of task i arrives in its thread.
BatchRespond(i, r) ==
    /\ pc = "running" /\ strategy = "batch"
    /\ i \in TaskIds
    /\ t[i].st = "inflight"
    /\ r \in Answers(t[i].reqs)
    /\ CASE r.kind = "ok" -> BatchSucceed(i, r.body)
         [] r.kind = "r429" -> BatchSleep(i, r.kind, (t[i].attempt + 1) * 2)
         [] r.kind = "other" ->
              \* neither branch of the if: the loop body ends without a sleep
              BatchNextAttempt(i, r.kind)
         [] OTHER ->
              IF t[i].attempt < BatchAttempts - 1
              THEN BatchSleep(i, r.kind, 1)
              ELSE BatchGiveUp(i)
    /\ resp' = Delivered(i, r)
    /\ UNCHANGED <<fn, provider, reference, session, pc, inputs, sem, doneq, cur, batch_idx, all_results,
                   completed, success_count, fail_count, calls>>

\* time.sleep is over: continue.
BatchWake(i) ==
    /\ pc = "running" /\ strategy = "batch"
    /\ i \in TaskIds
    /\ t[i].st = "sleep"
    /\ IF t[i].attempt + 1 < BatchAttempts
       THEN t' = [t EXCEPT ![i] = Post(@, t[i].attempt + 1)]
       ELSE BatchGiveUp(i)
    /\ resp' = NoResp
    /\ UNCHANGED <<fn, provider, reference, session, pc, inputs, sem, doneq, cur, batch_idx, all_results,
                   completed, success_count, fail_count, calls>>

\* The value the second half of a += 1 writes, given the value the first
\* half read.
Incremented(read) == read + 1

\* The second half of self.success_count += 1 or self.fail_count += 1: the
\* thread writes back the value it read plus one, and the future completes.
\* No lock protects the counter between the read and this write.
BatchStore(i) ==
    /\ pc = "running" /\ strategy = "batch"
    /\ i \in TaskIds
    /\ t[i].st = "store"
    /\ IF t[i].success
       THEN success_count' = Incremented(t[i].reg) /\ UNCHANGED fail_count
       ELSE fail_count' = Incremented(t[i].reg) /\ UNCHANGED success_count
    /\ t' = [t EXCEPT ![i] = Ended(@, "returned", t[i].success, t[i].results)]
    /\ resp' = NoResp
    /\ UNCHANGED <<fn, provider, reference, session, pc, inputs, sem, doneq, cur, batch_idx, all_results,
                   completed, calls>>

\* One round of: for future in as_completed(futures), in the main thread.
BatchCollect(i) ==
    /\ pc = "running" /\ strategy = "batch"
    /\ i \in TaskIds
    /\ t[i].st = "returned"
    /\ completed' = completed + 1
    /\ all_results' =
           IF t[i].success
           THEN [all_results EXCEPT ![TaskKw(i)] = @ \o t[i].results]
           ELSE all_results
    /\ calls' = Callback(completed + 1, NumTasks, TaskKw(i))
    /\ t' = [t EXCEPT ![i].st = "collected"]
    /\ resp' = NoResp
    /\ UNCHANGED <<fn, provider, reference, session, pc, inputs, sem, doneq, cur, batch_idx, success_count,
                   fail_count>>

\* Every future of the batch was consumed and the executor has shut down:
\* after the pause the next batch is submitted, or, after the last batch,
\* every list is sorted and search_all returns.
BatchNext ==
    /\ pc = "running" /\ strategy = "batch"
    /\ \A i \in BatchTasks(batch_idx) : t[i].st = "collected"
    /\ IF batch_idx < NumBatches
       THEN /\ batch_idx' = batch_idx + 1
            /\ t' = [i \in TaskIds |->
                        IF BatchOf(i) = batch_idx + 1
                        THEN [t[i] EXCEPT !.st = "queued"] ELSE t[i]]
            /\ UNCHANGED <<pc, all_results>>
       ELSE /\ all_results' = SortAll(all_results)
            /\ pc' = "done"
            /\ UNCHANGED <<batch_idx, t>>
    /\ resp' = NoResp
    /\ UNCHANGED <<fn, provider, reference, session, inputs, sem, doneq, cur, completed, success_count,
                   fail_count, calls>>

(* ------------------------ ranking tool functions --------------------- *)

\* A dict is the sequence of its (key, value) pairs in insertion order.
DictHas(d, key) == \E j \in 1..Len(d) : d[j][1] = key

\* d[key], for a key of d
DictGet(d, key) == d[CHOOSE j \in 1..Len(d) : d[j][1] = key][2]

\* d[key] = value: the value of a key of d is replaced where it stands, a
\* new key goes to the end.
DictSet(d, key, value) ==
    IF DictHas(d, key)
    THEN [j \in 1..Len(d) |-> IF d[j][1] = key THEN <<key, value>> ELSE d[j]]
    ELSE Append(d, <<key, value>>)

\* The key "keyword" of a ranking row.
KeywordKey == <<"k", "e", "y", "w", "o", "r", "d">>

\* result.get("link", "")
Link(result) == IF "link" \in DOMAIN result THEN result.link ELSE <<>>

\* Mutant of FirstMatchRank: the scan of the results does not stop at the
\* first match, so the last match decides.
RECURSIVE LastMatchRank(_, _)
LastMatchRank(results, site_normalized) ==
    IF results = <<>> THEN None
    ELSE LET later == LastMatchRank(Tail(results), site_normalized)
         IN IF later # None THEN later
            ELSE IF Contains(normalize_domain(Link(Head(results))), site_normalized)
            THEN Some(Head(results).actual_rank)
            ELSE None

\* The inner loop of find_rankings: rank stays None until the first result
\* whose normalized link contains the normalized site gives its actual_rank.
RECURSIVE FirstMatchRank(_, _)
FirstMatchRank(results, site_normalized) ==
    IF results = <<>> THEN None
    ELSE IF Contains(normalize_domain(Link(Head(results))), site_normalized)
    THEN Some(Head(results).actual_rank)
    ELSE FirstMatchRank(Tail(results), site_normalized)

\* The loop over the sites: row[site] = rank.
RECURSIVE FillRow(_, _, _)
FillRow(row, results, sites) ==
    IF sites = <<>> THEN row
    ELSE FillRow(DictSet(row, Head(sites),
                         FirstMatchRank(results, normalize_domain(Head(sites)))),
                 results, Tail(sites))

\* One row per item of serp_results, in the order of the dict.
find_rankings(serp_results, sites) ==
    [k \in 1..Len(serp_results) |->
        FillRow(<< <<KeywordKey, serp_results[k][1]>> >>, serp_results[k][2], sites)]

\* The keys of the map search_all returns, in the insertion order of the
\* dict: every keyword of kws at the place of its first occurrence.
RECURSIVE DictOrder(_)
DictOrder(kws) ==
    IF kws = <<>> THEN <<>>
    ELSE LET front == DictOrder(SubSeq(kws, 1, Len(kws) - 1))
             kw == kws[Len(kws)]
         IN IF kw \in Range(front) THEN front ELSE Append(front, kw)

\* The map m that search_all returns for the keyword list kws, as a dict.
ReturnedDict(m, kws) ==
    [k \in 1..Len(DictOrder(kws)) |-> <<DictOrder(kws)[k], m[DictOrder(kws)[k]]>>]

\* The tracked sites as the user may enter them (a line of the text area,
\* stripped and not empty).
Sites ==
    { <<"a", ".", "c", "o", "m">>, Www \o <<"A", ".", "C", "O", "M">> \o <<Slash>>, Https \o <<"b", ".", "c", "o", "m">>,
      <<"c", ".", "c", "o", "m">>, Www }

SiteLists == UNION {[1..n -> Sites] : n \in 1..MaxSites}

\* The result lists search_all returns for a keyword with two pages.
ResultLists ==
    {SortByRank(Annotate(b1, 1) \o Annotate(b2, 2)) : b1 \in Bodies, b2 \in Bodies}

\* The maps search_all returns for the keyword lists <<"b">> and <<"b", "a">>.
ReturnedMaps ==
    {ReturnedDict([kw \in {"b"} |-> r], <<"b">>) : r \in ResultLists}
    \cup {ReturnedDict([kw \in {"a", "b"} |-> IF kw = "b" THEN rb ELSE ra],
                       <<"b", "a">>) : rb \in ResultLists, ra \in ResultLists}

\* A call find_rankings(serp_results, sites) and its return value.
FindRankingsCall(serp_results, sites) ==
    /\ fn = NoCall
    /\ serp_results \in ReturnedMaps
    /\ sites \in SiteLists
    /\ fn' = [op |-> "find_rankings",
              args |-> [serp_results |-> serp_results, sites |-> sites],
              out |-> find_rankings(serp_results, sites)]
    /\ UNCHANGED <<searchvars, session, provider, reference>>

\* A call normalize_domain(domain) and its return value.
NormalizeDomainCall(domain) ==
    /\ fn = NoCall
    /\ domain \in Texts
    /\ fn' = [op |-> "normalize_domain", args |-> [domain |-> domain],
              out |-> normalize_domain(domain)]
    /\ UNCHANGED <<searchvars, session, provider, reference>>

\* {kw: idx for idx, kw in enumerate(keywords)}: the (0-based) index of the
\* last occurrence of every keyword.
get_keyword_order_map(kws) ==
    [kw \in Range(kws) |->
        (CHOOSE i \in 1..Len(kws) :
            kws[i] = kw /\ \A j \in (i + 1)..Len(kws) : kws[j] # kw) - 1]

\* The loop over item.keys(): the value of the first key other than
\* "keyword" whose normalized form is the normalized site, None without one.
RECURSIVE RankOf(_, _)
RankOf(item, site_normalized) ==
    IF item = <<>> THEN None
    ELSE IF /\ Head(item)[1] # KeywordKey
            /\ normalize_domain(Head(item)[1]) = site_normalized
    THEN Head(item)[2]
    ELSE RankOf(Tail(item), site_normalized)

\* order = keyword_order_map.get(keyword, 9999) if keyword_order_map else 0
\* (a map that is None or empty is false).
OrderOf(keyword, keyword_order_map) ==
    IF keyword_order_map # None /\ DOMAIN keyword_order_map[1] # {}
    THEN IF keyword \in DOMAIN keyword_order_map[1]
         THEN keyword_order_map[1][keyword]
         ELSE MissingOrder
    ELSE 0

\* Mutant of Classify: the append to both_ranked is made in the branches of
\* winning and losing only, so a row with equal ranks goes to no list.
ClassifyTiesDropped(rank_a, rank_b) ==
    IF rank_a = None /\ rank_b = None THEN {"neither"}
    ELSE IF rank_a = None THEN {"only_b"}
    ELSE IF rank_b = None THEN {"only_a"}
    ELSE IF rank_a[1] < rank_b[1] THEN {"both_ranked", "winning"}
    ELSE IF rank_a[1] > rank_b[1] THEN {"both_ranked", "losing"}
    ELSE {}

\* Mutant of Classify: the tests are "not rank_a" and "not rank_b", which
\* take the rank 0 for a missing rank.
ClassifyZeroAsNone(rank_a, rank_b) ==
    LET no_a == rank_a = None \/ rank_a = Some(0)
        no_b == rank_b = None \/ rank_b = Some(0)
    IN IF no_a /\ no_b THEN {"neither"}
       ELSE IF no_a THEN {"only_b"}
       ELSE IF no_b THEN {"only_a"}
       ELSE {"both_ranked"}
            \cup (IF rank_a[1] < rank_b[1] THEN {"winning"}
                  ELSE IF rank_a[1] > rank_b[1] THEN {"losing"}
                  ELSE {})

\* The if/elif chain of the loop body: the lists the item is appended to.
Classify(rank_a, rank_b) ==
    IF rank_a = None /\ rank_b = None THEN {"neither"}
    ELSE IF rank_a = None THEN {"only_b"}
    ELSE IF rank_b = None THEN {"only_a"}
    ELSE {"both_ranked"}
         \cup (IF rank_a[1] < rank_b[1] THEN {"winning"}
               ELSE IF rank_a[1] > rank_b[1] THEN {"losing"}
               ELSE {})

\* What is appended to the list of the given name.
Entry(name, keyword, rank_a, rank_b, order) ==
    CASE name = "neither" -> [keyword |-> keyword, order |-> order]
      [] name = "only_b" -> [keyword |-> keyword, rank_b |-> rank_b[1], order |-> order]
      [] name = "only_a" -> [keyword |-> keyword, rank_a |-> rank_a[1], order |-> order]
      [] name = "both_ranked" ->
            [keyword |-> keyword, rank_a |-> rank_a[1], rank_b |-> rank_b[1],
             diff |-> rank_b[1] - rank_a[1], order |-> order]
      [] OTHER ->
            [keyword |-> keyword, rank_a |-> rank_a[1], rank_b |-> rank_b[1],
             order |-> order]

\* The list of the given name after the loop over rankings.
RECURSIVE Appended(_, _, _, _, _)
Appended(name, rankings, site_a_normalized, site_b_normalized, keyword_order_map) ==
    IF rankings = <<>> THEN <<>>
    ELSE LET item == rankings[Len(rankings)]
             keyword == DictGet(item, KeywordKey)
             rank_a == RankOf(item, site_a_normalized)
             rank_b == RankOf(item, site_b_normalized)
             before == Appended(name, SubSeq(rankings, 1, Len(rankings) - 1),
                                site_a_normalized, site_b_normalized,
                                keyword_order_map)
         IN IF name \in Classify(rank_a, rank_b)
            THEN Append(before, Entry(name, keyword, rank_a, rank_b,
                                      OrderOf(keyword, keyword_order_map)))
            ELSE before

\* list.sort(key=lambda x: x["order"]): a stable sort.
RECURSIVE InsertByOrder(_, _)
InsertByOrder(x, s) ==
    IF s = <<>> THEN <<x>>
    ELSE IF x.order < Head(s).order THEN <<x>> \o s
    ELSE <<Head(s)>> \o InsertByOrder(x, Tail(s))

\* Mutant of SortByOrder: the list stays in the order of the rows.
SortByOrderSkipped(s) == s

RECURSIVE SortByOrder(_)
SortByOrder(s) ==
    IF s = <<>> THEN <<>>
    ELSE InsertByOrder(s[Len(s)], SortByOrder(SubSeq(s, 1, Len(s) - 1)))

BucketNames == {"winning", "losing", "both_ranked", "only_a", "only_b", "neither"}

analyze_keyword_competition(rankings, site_a, site_b, keyword_order_map) ==
    [name \in BucketNames |->
        SortByOrder(Appended(name, rankings, normalize_domain(site_a),
                             normalize_domain(site_b), keyword_order_map))]

\* The ranks a ranking row may hold for its two sites: None or a rank for
\* each, the first rank lower than, higher than or equal to the second.
RankPairs ==
    { <<None, None>>, <<None, Some(2)>>, <<Some(0), None>>,
      <<Some(0), Some(2)>>, <<Some(2), Some(0)>>, <<Some(2), Some(2)>> }

\* The ranking rows of a record that tracks the sites "a.com" and
\* "https://b.com".
Rows ==
    { << <<KeywordKey, kw>>,
         <<<<"a", ".", "c", "o", "m">>, ranks[1]>>,
         <<Https \o <<"b", ".", "c", "o", "m">>, ranks[2]>> >> :
         kw \in Keywords, ranks \in RankPairs }

RowLists == UNION {[1..n -> Rows] : n \in 0..MaxRows}

\* The two sites to compare: the sites of the rows, the first written other
\* than its key; and a site of the rows with one that no row has a key for.
SitePairs ==
    { <<Www \o <<"A", ".", "C", "O", "M">> \o <<Slash>>,
        Https \o <<"b", ".", "c", "o", "m">>>>,
      <<<<"a", ".", "c", "o", "m">>, <<"c", ".", "c", "o", "m">>>> }

\* keyword_order_map: None, or the map of a record's keywords.
OrderMaps ==
    {None}
    \cup {Some(get_keyword_order_map(kws)) :
             kws \in {<<"a", "b">>, <<"b">>}}

\* A call analyze_keyword_competition(rankings, site_a, site_b,
\* keyword_order_map) and its return value.
AnalyzeCall(rankings, pair, keyword_order_map) ==
    /\ fn = NoCall
    /\ rankings \in RowLists
    /\ pair \in SitePairs
    /\ keyword_order_map \in OrderMaps
    /\ fn' = [op |-> "analyze_keyword_competition",
              args |-> [rankings |-> rankings, site_a |-> pair[1],
                        site_b |-> pair[2],
                        keyword_order_map |-> keyword_order_map],
              out |-> analyze_keyword_competition(rankings, pair[1], pair[2],
                                                  keyword_order_map)]
    /\ UNCHANGED <<searchvars, session, provider, reference>>

(* ----------------------- the end of the click ------------------------- *)

\* Mutant of success_rate: the quotient is not multiplied by 100.
success_rate_fraction(successes, failures) ==
    IF successes + failures > 0
    THEN <<successes, successes + failures>>
    ELSE <<0, 1>>

\* searcher.success_count / (searcher.success_count + searcher.fail_count)
\* * 100 if (searcher.success_count + searcher.fail_count) > 0 else 0.  The
\* quotient is kept exact, as the pair of its numerator and denominator.
success_rate(successes, failures) ==
    IF successes + failures > 0
    THEN <<successes * 100, successes + failures>>
    ELSE <<0, 1>>

\* The click handler after search_all has returned: find_rankings, the
\* success rate, st.session_state.current_results and the record added to
\* the active project.
StartTrackingFinish ==
    /\ pc = "done"
    /\ session.stage = "searching"
    /\ LET all_rankings ==
               find_rankings(ReturnedDict(all_results, keywords), session.all_sites)
       IN session' =
              [session EXCEPT
                  !.stage = "shown",
                  !.current_results =
                      Some([rankings |-> all_rankings,
                            success_rate |-> success_rate(success_count, fail_count),
                            keywords |-> session.keywords]),
                  !.records = Append(@, [rankings |-> all_rankings,
                                         keywords |-> session.keywords])]
    /\ UNCHANGED <<searchvars, fn, provider, reference>>

(* ------------------------------- Next --------------------------------- *)

Next ==
    \/ \E kws \in KeywordLists, P \in 1..MaxTasks, mc \in Concurrencies :
          StableStart(kws, P, mc)
    \/ \E i \in TaskIds : StableAcquire(i)
    \/ \E i \in TaskIds : StableSend(i)
    \/ \E i \in TaskIds, r \in Responses : StableRespond(i, r)
    \/ \E i \in TaskIds : StableWake(i)
    \/ StableCollect
    \/ StableFinish
    \/ \E kws \in KeywordLists, P \in 1..MaxTasks : SeqStart(kws, P)
    \/ \E r \in Responses : SeqRespond(r)
    \/ SeqWake
    \/ \E kws \in KeywordLists, P \in 1..MaxTasks,
          bs \in Concurrencies, mw \in Concurrencies :
          BatchStart(kws, P, bs, mw)
    \/ \E i \in TaskIds : BatchRun(i)
    \/ \E i \in TaskIds, r \in Responses : BatchRespond(i, r)
    \/ \E i \in TaskIds : BatchWake(i)
    \/ \E i \in TaskIds : BatchStore(i)
    \/ \E i \in TaskIds : BatchCollect(i)
    \/ BatchNext
    \/ \E api_key \in BOOLEAN, kws \in KeywordInputs, all_sites \in SiteInputs,
          P \in 1..MaxTasks : StartTrackingStop(api_key, kws, all_sites, P)
    \/ StartTrackingFinish

Spec == Init /\ [][Next]_vars

\* The tool functions, called on their own.
NextFn ==
    \/ \E domain \in Texts : NormalizeDomainCall(domain)
    \/ \E serp_results \in ReturnedMaps, sites \in SiteLists :
          FindRankingsCall(serp_results, sites)
    \/ \E rankings \in RowLists, pair \in SitePairs,
          keyword_order_map \in OrderMaps :
          AnalyzeCall(rankings, pair, keyword_order_map)

\* The searchers against a provider that gives every result its position.
SpecPositioned == InitPositioned /\ [][Next]_vars

(* ---------------------------- a second run ---------------------------- *)

\* What a request of a scripted provider can end in.
Hit == [kind |-> "ok", body |-> CHOOSE b \in Bodies : b # <<>>]
Miss(k) == [kind |-> k, body |-> <<>>]

\* The scripts of the deterministic providers the model explores: the
\* response to a request depends on its number within its task only.
Scripts ==
    { <<Hit>>,
      <<Miss("other"), Hit>>,
      <<Miss("exc"), Hit>>,
      <<Miss("r429"), Hit>>,
      <<Miss("r429"), Miss("r429"), Miss("r429"), Hit>>,
      <<Miss("other")>> }

ScriptedProvider(script) == [bodies |-> Bodies, script |-> Some(script)]

\* A new searcher, no click yet, and some deterministic provider.
InitRuns ==
    /\ NewSearcher
    /\ fn = NoCall
    /\ session = NoClick
    /\ provider \in {ScriptedProvider(script) : script \in Scripts}
    /\ reference = None

\* What the run that has returned was given and what it gave: the inputs,
\* the returned map and the two counters of the searcher.
Outcome ==
    [strategy |-> strategy, keywords |-> keywords, max_pages |-> max_pages,
     map |-> all_results, success_count |-> success_count,
     fail_count |-> fail_count]

\* The locals of search_all are gone after its return.
LocalsGone ==
    /\ keywords' = <<>>
    /\ max_pages' = 0
    /\ t' = <<>>
    /\ sem' = 0
    /\ doneq' = <<>>
    /\ cur' = 0
    /\ batch_idx' = 0
    /\ all_results' = <<>>
    /\ completed' = 0
    /\ calls' = <<>>
    /\ resp' = NoResp

\* The results of the first click are shown and the user is about to click
\* again: the next click constructs a new searcher, which may be of another
\* class.
NextSearcher ==
    /\ pc = "done"
    /\ session.stage = "shown"
    /\ reference = None
    /\ reference' = Some(Outcome)
    /\ pc' = "idle"
    /\ strategy' = "none"
    /\ max_concurrent' = 0
    /\ batch_size' = 0
    /\ success_count' = 0
    /\ fail_count' = 0
    /\ LocalsGone
    /\ session' = [session EXCEPT !.stage = "none"]
    /\ UNCHANGED <<fn, provider>>

\* The same searcher object is about to run search_all once more: its
\* attributes, the two counters among them, are what the first run left.
SearchAgain ==
    /\ pc = "done"
    /\ session.stage = "shown"
    /\ reference = None
    /\ reference' = Some(Outcome)
    /\ pc' = "idle"
    /\ LocalsGone
    /\ session' = [session EXCEPT !.stage = "none"]
    /\ UNCHANGED <<fn, provider, strategy, max_concurrent, batch_size,
                   success_count, fail_count>>

NextRuns ==
    \/ Next
    \/ NextSearcher
    \/ SearchAgain

\* Two runs against one deterministic provider.
SpecRuns == InitRuns /\ [][NextRuns]_vars

SpecFn == Init /\ [][NextFn]_vars

\* A step of a running search_all: of one of its coroutines or threads, of
\* its collecting loop, or the arrival of the response to an outstanding
\* request.
SearchStep ==
    \/ \E i \in TaskIds : StableAcquire(i)
    \/ \E i \in TaskIds : StableSend(i)
    \/ \E i \in TaskIds, r \in Responses : StableRespond(i, r)
    \/ \E i \in TaskIds : StableWake(i)
    \/ StableCollect
    \/ StableFinish
    \/ \E r \in Responses : SeqRespond(r)
    \/ SeqWake
    \/ \E i \in TaskIds : BatchRun(i)
    \/ \E i \in TaskIds, r \in Responses : BatchRespond(i, r)
    \/ \E i \in TaskIds : BatchWake(i)
    \/ \E i \in TaskIds : BatchStore(i)
    \/ \E i \in TaskIds : BatchCollect(i)
    \/ BatchNext

\* The runs in which search_all is not left standing: every request is
\* answered or times out, every sleep ends, and the event loop and the
\* thread pool run what can run.
SpecLive == Spec /\ WF_vars(SearchStep)

(* ============================ properties ============================== *)

Done == pc = "done"

\* Task i has ended: its coroutine, call or thread has returned.
HasEnded(i) == t[i].st \in {"returned", "collected"}

Succeeded == {i \in DOMAIN t : HasEnded(i) /\ t[i].success}
Failed == {i \in DOMAIN t : HasEnded(i) /\ ~t[i].success}

\* The tasks that have an outstanding provider request.
InFlight == {i \in DOMAIN t : t[i].st = "inflight"}

\* Every result of task i is an entry of its keyword's list.
ResultsPresent(i) ==
    \A j \in 1..Len(t[i].results) :
        \E k \in 1..Len(all_results[TaskKw(i)]) :
            all_results[TaskKw(i)][k] = t[i].results[j]

\* The step delivers a response of one of the kinds ks to task i, whose
\* request was outstanding.
Receives(i, ks) ==
    /\ t[i].st = "inflight"
    /\ resp'.task = i
    /\ resp'.kind \in ks

\* The step is the one in which the counter increment of task i takes
\* effect: the step that ends the task, in Batch the write of its thread.
CountingStep(i) ==
    /\ ~HasEnded(i)
    /\ t'[i].st \in {"returned", "collected"}

(* ------------------------------- C1 ----------------------------------- *)

\* C1: under each of the three strategies a (keyword, page) task issues at
\* most max_retries = 3 provider requests, whatever the provider answers.
\* (The task's requests are counted while it runs.)
C1_AtMostThreeRequests ==
    \A i \in DOMAIN t : t[i].reqs <= max_retries

(* ------------------------------- C2 ----------------------------------- *)

\* C2: progress_callback is called once per completed task; the k-th call
\* carries completed = k and total = N*P; when search_all has returned it
\* was called exactly N*P times.
C2_ProgressCallbackCounts ==
    /\ \A k \in 1..Len(calls) :
          /\ calls[k].completed = k
          /\ calls[k].total = Len(keywords) * max_pages
    /\ Len(calls) = Cardinality({i \in DOMAIN t : t[i].st = "collected"})
    /\ Done => Len(calls) = Len(keywords) * max_pages

\* A run of three tasks has returned; one task succeeded, one failed.
C2_Witness ==
    /\ Done
    /\ Len(calls) = 3
    /\ calls[3].completed = 3
    /\ Succeeded # {}
    /\ Failed # {}

(* ------------------------------- C3 ----------------------------------- *)

\* C3: the returned map has a key for every input keyword, and the empty
\* list for a keyword all of whose tasks failed permanently.
C3_EveryKeywordHasEntry ==
    Done =>
        /\ DOMAIN all_results = Range(keywords)
        /\ \A kw \in Range(keywords) :
              (\A i \in TaskIds : TaskKw(i) = kw => ~t[i].success)
                  => all_results[kw] = <<>>

\* A run has returned in which every task of one keyword failed and
\* another keyword has results.
C3_Witness ==
    /\ Done
    /\ \E kw \in Range(keywords) :
          /\ \A i \in TaskIds : TaskKw(i) = kw => ~t[i].success
          /\ kw \in DOMAIN all_results
          /\ all_results[kw] = <<>>
    /\ \E kw \in DOMAIN all_results : all_results[kw] # <<>>

(* ------------------------------- C4 ----------------------------------- *)

\* C4: every list of the returned map is sorted ascending by actual_rank.
C4_SortedByRank ==
    Done =>
        \A kw \in DOMAIN all_results :
            \A j \in 1..(Len(all_results[kw]) - 1) :
                all_results[kw][j].actual_rank <= all_results[kw][j + 1].actual_rank

\* A run has returned with a list made of the results of two pages, which
\* were collected page 2 first.
C4_Witness ==
    /\ Done
    /\ Len(calls) >= 2
    /\ \E kw \in DOMAIN all_results : Len(all_results[kw]) >= 4
    /\ \E i, j \in Succeeded :
          /\ TaskKw(i) = TaskKw(j)
          /\ t[i].results # <<>> /\ t[j].results # <<>>
          /\ TaskPage(i) < TaskPage(j)
          /\ strategy # "sequential"

(* ------------------------------- C5 ----------------------------------- *)

\* C5: a task that fails permanently does not abort the run: when
\* search_all has returned, every task was attempted and the results of
\* every task that succeeded are in the returned map.
C5_FailureNeverAborts ==
    (Done /\ Failed # {}) =>
        \A i \in TaskIds :
            /\ t[i].asked
            /\ t[i].success => ResultsPresent(i)

(* ------------------------------- C6 ----------------------------------- *)

\* C6: in the Concurrent strategy at most max_concurrent tasks have an
\* outstanding provider request at any moment.
C6_InFlightBounded ==
    strategy = "stable" => Cardinality(InFlight) <= max_concurrent

\* All three tasks of a run were submitted at once; max_concurrent = 2 of
\* them have a request outstanding and the third waits for the semaphore.
C6_Witness ==
    /\ strategy = "stable"
    /\ NumTasks = 3
    /\ max_concurrent = 2
    /\ Cardinality(InFlight) = 2
    /\ \E i \in TaskIds : t[i].st = "new"
    /\ sem = 0

(* ------------------------------- C7 ----------------------------------- *)

\* C7: when search_all of the Batched strategy returns, success_count is
\* the number of tasks that succeeded and fail_count the number of tasks
\* that failed permanently, so that they add up to the number of tasks.
C7_NoLostIncrement ==
    (strategy = "batch" /\ Done) =>
        /\ success_count = Cardinality(Succeeded)
        /\ fail_count = Cardinality(Failed)
        /\ success_count + fail_count = NumTasks

(* ------------------------------- C8 ----------------------------------- *)

\* C8: in each strategy a transient failure of an attempt (another status,
\* a timeout, a network error) is retried while the budget allows; a task
\* whose first attempt failed transiently and whose second attempt gets a
\* 200 returns the results of that response and is counted as a success.
C8_TransientRetried ==
    [][\A i \in DOMAIN t \cap DOMAIN t' :
         /\ (Receives(i, {"other", "exc"}) /\ t[i].reqs < max_retries)
               => t'[i].st \in {"sleep", "inflight"}
         /\ (Receives(i, {"ok"}) /\ t[i].reqs = 2 /\ t[i].seen = "transient")
               => /\ t'[i].success
                  /\ t'[i].results = Annotate(resp'.body, TaskPage(i))
         /\ (CountingStep(i) /\ t[i].reqs = 2 /\ t[i].seen = "transient"
               /\ t'[i].success)
               => /\ success_count' = success_count + 1
                  /\ fail_count' = fail_count
      ]_vars

(* ------------------------------- C9 ----------------------------------- *)

\* C9 (as claimed): in the Sequential strategy, once page p of a keyword
\* has returned zero results no request for a later page of that keyword
\* is issued.
C9_StopsAfterEmptyPage ==
    strategy = "sequential" =>
        \A i, j \in TaskIds :
            ( /\ TaskKwIdx(i) = TaskKwIdx(j)
              /\ TaskPage(i) < TaskPage(j)
              /\ HasEnded(i) /\ t[i].success /\ t[i].results = <<>> )
            => ~t[j].asked

\* C9 (amended): in the Sequential strategy a page that returns zero
\* results does not end the page loop: the request for the next page of the
\* keyword is issued all the same, so that every one of the N*P tasks has
\* posted a request when search_all returns; the empty page is not counted
\* as an error (success_count rises by one, fail_count is unchanged).
C9_EmptyPageContinues ==
    /\ [](strategy = "sequential" /\ Done => \A i \in TaskIds : t[i].asked)
    /\ [][\A i \in DOMAIN t \cap DOMAIN t' :
            (strategy = "sequential" /\ Receives(i, {"ok"}) /\ resp'.body = <<>>)
            => /\ fail_count' = fail_count
               /\ success_count' = success_count + 1
               /\ TaskPage(i) < max_pages
                     => /\ t'[i + 1].st = "inflight"
                        /\ t'[i + 1].asked
                        /\ TaskKwIdx(i + 1) = TaskKwIdx(i)
         ]_vars

\* Page 1 of a keyword returned zero results and page 2 of the same keyword
\* was requested after it.
C9_Witness ==
    /\ strategy = "sequential"
    /\ \E i \in TaskIds :
          /\ TaskPage(i) < max_pages
          /\ HasEnded(i) /\ t[i].success /\ t[i].results = <<>>
          /\ t[i + 1].asked
    /\ success_count >= 1
    /\ fail_count = 0

(* ------------------------------- C10 ---------------------------------- *)

\* C10: the first 200 within the retry budget ends the task at once with
\* the results of that response, and no further request is issued for the
\* task; for a task whose responses were 429, 429, 200 the success_count
\* rises by exactly 1 and fail_count is unchanged.
C10_First200EndsTask ==
    [][\A i \in DOMAIN t \cap DOMAIN t' :
         /\ (Receives(i, {"ok"}) /\ t[i].reqs <= max_retries)
               => /\ t'[i].st \notin {"inflight", "sleep"}
                  /\ t'[i].success
                  /\ t'[i].results = Annotate(resp'.body, TaskPage(i))
         /\ (t[i].st \in {"store", "returned", "collected"})
               => t'[i].st \in {"store", "returned", "collected"}
         /\ (CountingStep(i) /\ t[i].reqs = 3 /\ t[i].seen = "r429"
               /\ t'[i].success)
               => /\ success_count' = success_count + 1
                  /\ fail_count' = fail_count
      ]_vars

(* ------------------------------- C11 ---------------------------------- *)

\* The step counts task i as failed after requests that all failed
\* transiently: the last of them arrives in this step, or (Batch) the thread
\* of the task writes the counter it read when the last one had arrived.
ExhaustedTransient(i) ==
    /\ CountingStep(i)
    /\ ~t'[i].success
    /\ t[i].seen \in {"none", "transient"}
    /\ Receives(i, {"other", "exc"}) \/ t[i].st = "store"

\* C11: a task whose three attempts all fail transiently ends as a
\* permanent failure with an empty result list; fail_count rises by exactly
\* 1, at the end of the task and not at each failed attempt, and
\* success_count is unchanged.
C11_ExhaustionCountsOnce ==
    [][\A i \in DOMAIN t \cap DOMAIN t' :
         /\ ( /\ Receives(i, {"other", "exc"})
              /\ t[i].reqs = max_retries
              /\ t[i].seen = "transient" )
               => /\ t'[i].st \in {"store", "returned", "collected"}
                  /\ ~t'[i].success
                  /\ t'[i].results = <<>>
         /\ (Receives(i, {"other", "exc"}) /\ ~CountingStep(i))
               => /\ fail_count' = fail_count
                  /\ success_count' = success_count
         /\ ExhaustedTransient(i)
               => /\ fail_count' = fail_count + 1
                  /\ success_count' = success_count
                  /\ t'[i].results = <<>>
      ]_vars

(* ------------------------------- C12 ---------------------------------- *)

\* The actual_rank of every result whose normalized link contains the
\* normalized site.
MatchingRanks(results, site) ==
    {results[j].actual_rank :
        j \in {i \in 1..Len(results) :
                  Contains(normalize_domain(Link(results[i])),
                           normalize_domain(site))}}

Lowest(ranks) == CHOOSE x \in ranks : \A y \in ranks : x <= y

\* C12: for every keyword and every tracked site the row of find_rankings
\* holds the lowest actual_rank among the keyword's results whose normalized
\* link contains the normalized site, and None when no result matches.
C12_LowestMatchingRank ==
    fn.op = "find_rankings" =>
        /\ Len(fn.out) = Len(fn.args.serp_results)
        /\ \A k \in 1..Len(fn.out) :
              \A j \in 1..Len(fn.args.sites) :
                 LET site == fn.args.sites[j]
                     ranks == MatchingRanks(fn.args.serp_results[k][2], site)
                 IN /\ DictHas(fn.out[k], site)
                    /\ DictGet(fn.out[k], site) =
                          IF ranks = {} THEN None ELSE Some(Lowest(ranks))

\* find_rankings was called for a keyword with two matching results of
\* different rank for one site, which got the lower rank, and no matching
\* result for another site, which got None.
C12_Witness ==
    /\ fn.op = "find_rankings"
    /\ \E k \in 1..Len(fn.out) :
          \E i, j \in 1..Len(fn.args.sites) :
             LET results == fn.args.serp_results[k][2]
                 hit == fn.args.sites[i]
                 miss == fn.args.sites[j]
             IN /\ normalize_domain(hit) # <<>>
                /\ Cardinality(MatchingRanks(results, hit)) >= 2
                /\ DictGet(fn.out[k], hit) = Some(Lowest(MatchingRanks(results, hit)))
                /\ results # <<>>
                /\ MatchingRanks(results, miss) = {}
                /\ DictGet(fn.out[k], miss) = None

(* ------------------------------- C13 ---------------------------------- *)

\* The "keyword" fields of the rows, in the order of the rows.
KeywordColumn(rows) == [k \in 1..Len(rows) |-> DictGet(rows[k], KeywordKey)]

\* C13: find_rankings applied to the map that search_all returned yields
\* one row per input keyword, and the keywords of the rows are the input
\* keyword list, in every strategy and for every order of completion.
C13_RowsInInputOrder ==
    Done =>
        \A sites \in SiteLists :
            KeywordColumn(find_rankings(ReturnedDict(all_results, keywords), sites))
                = keywords

(* ------------------------------- C14 ---------------------------------- *)

Analyzed == fn.op = "analyze_keyword_competition"

\* The keyword of ranking row r and its ranks for the two compared sites.
RowKeyword(r) == DictGet(r, KeywordKey)
RowRankA(r) == RankOf(r, normalize_domain(fn.args.site_a))
RowRankB(r) == RankOf(r, normalize_domain(fn.args.site_b))

\* Entry e of both_ranked is listed in the given bucket as well.
Listed(e, bucket) ==
    \E j \in 1..Len(bucket) :
        /\ bucket[j].keyword = e.keyword
        /\ bucket[j].rank_a = e.rank_a
        /\ bucket[j].rank_b = e.rank_b
        /\ bucket[j].order = e.order

\* tied: the entries of both_ranked that are in neither winning nor losing
\* (by their index in both_ranked).
Tied(out) ==
    {j \in 1..Len(out.both_ranked) :
        /\ ~Listed(out.both_ranked[j], out.winning)
        /\ ~Listed(out.both_ranked[j], out.losing)}

\* How many entries of the bucket are for keyword kw.
EntriesFor(bucket, kw) ==
    Cardinality({j \in 1..Len(bucket) : bucket[j].keyword = kw})

\* C14: every ranking row is in exactly one of winning, losing, only_a,
\* only_b, neither and tied, so the six sizes add up to the number of rows
\* (in all, and for the rows of each keyword).
C14_EveryRowInOneBucket ==
    Analyzed =>
        LET out == fn.out
            rows == fn.args.rankings
        IN /\ Len(out.winning) + Len(out.losing) + Len(out.only_a)
                 + Len(out.only_b) + Len(out.neither) + Cardinality(Tied(out))
              = Len(rows)
           /\ \A kw \in Keywords :
                 EntriesFor(out.winning, kw) + EntriesFor(out.losing, kw)
                    + EntriesFor(out.only_a, kw) + EntriesFor(out.only_b, kw)
                    + EntriesFor(out.neither, kw)
                    + Cardinality({j \in Tied(out) : out.both_ranked[j].keyword = kw})
                 = Cardinality({k \in 1..Len(rows) : RowKeyword(rows[k]) = kw})
           /\ \A j \in Tied(out) :
                 out.both_ranked[j].rank_a = out.both_ranked[j].rank_b

\* Two rows were analyzed: one is tied, the other is in another bucket.
C14_Witness ==
    /\ Analyzed
    /\ Len(fn.args.rankings) = 2
    /\ Cardinality(Tied(fn.out)) = 1
    /\ Len(fn.out.both_ranked) = 1
    /\ Len(fn.out.only_a) + Len(fn.out.only_b) + Len(fn.out.neither) = 1

(* ------------------------------- C15 ---------------------------------- *)

\* The rule as specified, "tied" standing for: both ranks present and equal.
SpecifiedBucket(rank_a, rank_b) ==
    IF rank_a = None /\ rank_b = None THEN "neither"
    ELSE IF rank_a = None THEN "only_b"
    ELSE IF rank_b = None THEN "only_a"
    ELSE IF rank_a[1] < rank_b[1] THEN "winning"
    ELSE IF rank_a[1] > rank_b[1] THEN "losing"
    ELSE "tied"

\* Row r belongs in the returned list of the given name.
BelongsIn(r, name) ==
    LET b == SpecifiedBucket(RowRankA(r), RowRankB(r))
    IN IF name = "both_ranked" THEN b \in {"winning", "losing", "tied"}
       ELSE b = name

\* Entry e carries the keyword and the ranks of row r.
EntryOf(e, r) ==
    /\ e.keyword = RowKeyword(r)
    /\ "rank_a" \in DOMAIN e => Some(e.rank_a) = RowRankA(r)
    /\ "rank_b" \in DOMAIN e => Some(e.rank_b) = RowRankB(r)

\* C15: each row is classified by the rule: both ranks absent -> neither;
\* only rank_a absent -> only_b; only rank_b absent -> only_a; both present
\* and rank_a < rank_b -> winning; rank_a > rank_b -> losing; equal -> in
\* both_ranked only.  A rank of 0 is a rank.
C15_ClassifiedByRule ==
    Analyzed =>
        \A name \in BucketNames :
            LET bucket == fn.out[name]
                rows == fn.args.rankings
            IN /\ \A j \in 1..Len(bucket) :
                     \E k \in 1..Len(rows) :
                        BelongsIn(rows[k], name) /\ EntryOf(bucket[j], rows[k])
               /\ \A kw \in Keywords :
                     EntriesFor(bucket, kw)
                     = Cardinality({k \in 1..Len(rows) :
                                      /\ RowKeyword(rows[k]) = kw
                                      /\ BelongsIn(rows[k], name)})

\* A row with rank_a = 0 and rank_b = 2 was analyzed and is in winning, and
\* a row with equal ranks is in both_ranked and in neither winning nor
\* losing.
C15_Witness ==
    /\ Analyzed
    /\ Len(fn.args.rankings) = 2
    /\ Len(fn.out.winning) = 1
    /\ fn.out.winning[1].rank_a = 0
    /\ fn.out.winning[1].rank_b = 2
    /\ Len(fn.out.both_ranked) = 2
    /\ Cardinality(Tied(fn.out)) = 1
    /\ fn.out.losing = <<>>

(* ------------------------------- C16 ---------------------------------- *)

\* C16: every returned list is in ascending order of the order value of its
\* keywords, and its entries of equal order value (keywords the map lacks,
\* or all entries without a map) are in the order of their rows.
C16_BucketsInKeywordOrder ==
    Analyzed =>
        \A name \in BucketNames :
            LET bucket == fn.out[name]
                map == fn.args.keyword_order_map
            IN /\ \A j \in 1..Len(bucket) :
                     bucket[j].order = OrderOf(bucket[j].keyword, map)
               /\ \A j \in 1..(Len(bucket) - 1) :
                     bucket[j].order <= bucket[j + 1].order
               /\ \A o \in {OrderOf(kw, map) : kw \in Keywords} :
                     LET entries == SelectSeq(bucket, LAMBDA e : e.order = o)
                         rows == SelectSeq(fn.args.rankings,
                                           LAMBDA r : /\ BelongsIn(r, name)
                                                      /\ OrderOf(RowKeyword(r), map) = o)
                     IN /\ Len(entries) = Len(rows)
                        /\ \A j \in 1..Len(entries) : EntryOf(entries[j], rows[j])

\* Two rows of different keywords went to one list, which holds them in the
\* order of the map, the reverse of the order of the rows.
C16_Witness ==
    /\ Analyzed
    /\ Len(fn.args.rankings) = 2
    /\ fn.args.keyword_order_map # None
    /\ \E name \in BucketNames \ {"both_ranked"} :
          /\ Len(fn.out[name]) = 2
          /\ fn.out[name][1].order < fn.out[name][2].order
          /\ fn.out[name][1].keyword = RowKeyword(fn.args.rankings[2])
          /\ fn.out[name][2].keyword = RowKeyword(fn.args.rankings[1])
          /\ fn.out[name][1].keyword # fn.out[name][2].keyword

(* ------------------------------- C17 ---------------------------------- *)

\* C17: normalize_domain is idempotent: applied to its own result it
\* returns that result.
C17_Idempotent ==
    fn.op = "normalize_domain" => normalize_domain(fn.out) = fn.out

(* ------------------------------- C18 ---------------------------------- *)

\* The bare domains of the inputs.
BareDomains == {<<"a", ".", "c", "o", "m">>}

\* d in upper-case letters.
UpperCase(c) ==
    CASE c = "a" -> "A"
      [] c = "c" -> "C"
      [] c = "m" -> "M"
      [] c = "o" -> "O"
      [] OTHER -> c

Upper(d) == [j \in 1..Len(d) |-> UpperCase(d[j])]

\* The ways of writing the bare domain d: in lower or upper case, after
\* http:// or https://, after www., before a slash.
Written(d) ==
    {scheme \o www \o body \o slash :
        scheme \in {<<>>, Http, Https},
        www \in {<<>>, Www},
        body \in {d, Upper(d)},
        slash \in {<<>>, <<Slash>>}}

\* C18: normalize_domain returns for every way of writing a bare domain d
\* what it returns for d itself.
C18_DecorationsIgnored ==
    fn.op = "normalize_domain" =>
        \A d \in BareDomains :
            fn.args.domain \in Written(d) => fn.out = normalize_domain(d)

\* normalize_domain("https://www.A.COM/") returned "a.com".
C18_Witness ==
    /\ fn.op = "normalize_domain"
    /\ fn.args.domain = Https \o Www \o <<"A", ".", "C", "O", "M">> \o <<Slash>>
    /\ fn.out = <<"a", ".", "c", "o", "m">>
    /\ fn.out = normalize_domain(<<"a", ".", "c", "o", "m">>)

(* ------------------------------- C19 ---------------------------------- *)

\* The algorithm as specified: lower-case; strip one leading http:// or
\* https://; strip one trailing /; strip one leading www.
SpecifiedScheme(s) ==
    IF StartsWith(s, Https) THEN SubSeq(s, Len(Https) + 1, Len(s))
    ELSE IF StartsWith(s, Http) THEN SubSeq(s, Len(Http) + 1, Len(s))
    ELSE s

SpecifiedSlash(s) ==
    IF s # <<>> /\ s[Len(s)] = Slash THEN SubSeq(s, 1, Len(s) - 1) ELSE s

SpecifiedAlgorithm(s) == DropWww(SpecifiedSlash(SpecifiedScheme(Lower(s))))

\* C19: normalize_domain returns exactly the result of the specified
\* algorithm and changes nothing else of its input.
C19_SpecifiedAlgorithm ==
    fn.op = "normalize_domain" => fn.out = SpecifiedAlgorithm(fn.args.domain)

(* ------------------------------- C20 ---------------------------------- *)

\* C20: a tracked site whose normalized form is the empty string gets no
\* rank from find_rankings.
C20_EmptyDomainGetsNoRank ==
    fn.op = "find_rankings" =>
        \A k \in 1..Len(fn.out) :
            \A j \in 1..Len(fn.args.sites) :
                normalize_domain(fn.args.sites[j]) = <<>>
                    => DictGet(fn.out[k], fn.args.sites[j]) = None

(* ------------------------------- C21 ---------------------------------- *)

\* C21: in each of the three strategies every result of a successful
\* (keyword, page) fetch gets actual_rank = (page - 1) * 10 + position, with
\* position taken as 0 when the provider omits it; page 1 position 3 gives
\* 3, page 3 position 1 gives 21.
C21_ActualRankFormula ==
    [][/\ \A i \in DOMAIN t \cap DOMAIN t' :
            Receives(i, {"ok"}) =>
                /\ Len(t'[i].results) = Len(resp'.body)
                /\ \A j \in 1..Len(resp'.body) :
                      LET item == resp'.body[j]
                          position == IF "position" \in DOMAIN item
                                      THEN item.position ELSE 0
                      IN /\ t'[i].results[j].actual_rank
                              = (TaskPage(i) - 1) * 10 + position
                         /\ t'[i].results[j].link = item.link
       /\ ActualRank(1, [position |-> 3]) = 3
       /\ ActualRank(3, [position |-> 1]) = 21
      ]_vars

\* A fetch of page 3 has succeeded: its result at position 2 has
\* actual_rank 22 and its result without a position has actual_rank 20.
C21_Witness ==
    \E i \in DOMAIN t :
        /\ TaskPage(i) = 3
        /\ t[i].success
        /\ Len(t[i].results) = 2
        /\ t[i].results[1].actual_rank = 22
        /\ "position" \notin DOMAIN t[i].results[2]
        /\ t[i].results[2].actual_rank = 20

(* ------------------------------- C22 ---------------------------------- *)

C23_SearchAllReturns == (pc = "running") ~> (pc = "done")

\* search_all of the Sequential strategy has returned in the step in which
\* a 429 arrived: every request of its last task was answered 429.
C23_Witness ==
    /\ pc = "done"
    /\ strategy = "sequential"
    /\ resp.kind = "r429"
    /\ fail_count >= 1

(* ------------------------------- C24 ---------------------------------- *)

\* The success rate the click has reported, as the pair of the numerator
\* and the denominator of the quotient.
ReportedRate == session.current_results[1].success_rate

\* C24 (as claimed): the success rate the run reports equals
\* successes / (successes + failures) and lies between 0 and 1 inclusive,
\* successes and failures being success_count and fail_count.
C24_RateIsFraction ==
    session.stage = "shown" =>
        /\ ReportedRate[1] * (success_count + fail_count)
              = success_count * ReportedRate[2]
        /\ 0 <= ReportedRate[1]
        /\ ReportedRate[1] <= ReportedRate[2]

\* C24 (amended): the success rate the run reports equals
\* successes / (successes + failures) * 100, a percentage between 0 and 100
\* inclusive, successes and failures being success_count and fail_count.
C24_RateIsPercentage ==
    session.stage = "shown" =>
        /\ ReportedRate[2] > 0
        /\ success_count + fail_count > 0
        /\ ReportedRate[1] * (success_count + fail_count)
              = 100 * success_count * ReportedRate[2]
        /\ 0 <= ReportedRate[1]
        /\ ReportedRate[1] <= 100 * ReportedRate[2]

\* A run of three tasks, one of which succeeded, has reported 100/3.
C24_Witness ==
    /\ session.stage = "shown"
    /\ success_count = 1
    /\ fail_count = 2
    /\ ReportedRate = <<100, 3>>

(* ------------------------------- C25 ---------------------------------- *)

\* The tasks that a worker thread has started and not yet finished.
Started == {i \in DOMAIN t : t[i].st \in {"inflight", "sleep", "store"}}

\* C25: in the Batched strategy no task of a later batch starts before
\* every task of the batch before it has completed, and at no time are more
\* than max_workers tasks running.
C25_BatchesInTurn ==
    strategy = "batch" =>
        /\ \A i, j \in TaskIds :
              (BatchOf(i) < BatchOf(j) /\ t[j].st # "new") => HasEnded(i)
        /\ \A i \in TaskIds : i \in Started => BatchOf(i) = batch_idx
        /\ Cardinality(Started) <= max_concurrent

\* A run of three tasks with batch_size = 2 and max_workers = 1: one task of
\* the first batch is running, the other waits for the thread, and the task
\* of the second batch has not been submitted.
C25_Witness ==
    /\ strategy = "batch"
    /\ NumTasks = 3
    /\ batch_size = 2
    /\ max_concurrent = 1
    /\ batch_idx = 1
    /\ Cardinality(Started) = 1
    /\ \E i \in TaskIds : t[i].st = "queued"
    /\ t[3].st = "new"

(* ------------------------------- C26 ---------------------------------- *)

\* How many entries of the list s equal x.
CountIn(s, x) == Cardinality({k \in 1..Len(s) : s[k] = x})

\* How many times the successful tasks of keyword kw, among the tasks 1..n,
\* returned the result x.
RECURSIVE ReturnedCount(_, _, _)
ReturnedCount(n, kw, x) ==
    IF n = 0 THEN 0
    ELSE ReturnedCount(n - 1, kw, x)
         + (IF TaskKw(n) = kw /\ t[n].success THEN CountIn(t[n].results, x) ELSE 0)

\* The results that occur in a returned list or in what a task returned.
AllEntries ==
    UNION {Range(all_results[kw]) : kw \in DOMAIN all_results}
    \cup UNION {Range(t[i].results) : i \in DOMAIN t}

\* C26: for each strategy and any completion order, the returned list of
\* keyword k holds each result of each successful (k, page) task exactly
\* once and nothing else; a permanently failed task contributes no entry.
C26_ListsHoldExactlyTheResults ==
    Done =>
        /\ \A kw \in DOMAIN all_results : \A x \in AllEntries :
              CountIn(all_results[kw], x) = ReturnedCount(NumTasks, kw, x)
        /\ \A i \in TaskIds : ~t[i].success => t[i].results = <<>>

(* ------------------------------- C27 ---------------------------------- *)

\* Every page fetched so far gave its results positions in 1..10, no two
\* results of a page the same.
PositionsDistinct ==
    \A i \in DOMAIN t :
        /\ \A j \in 1..Len(t[i].results) :
              /\ "position" \in DOMAIN t[i].results[j]
              /\ t[i].results[j].position \in 1..10
        /\ \A j, k \in 1..Len(t[i].results) :
              t[i].results[j].position = t[i].results[k].position => j = k

\* C27: when every fetched page assigns its results distinct positions in
\* 1..10, no two entries of a keyword's list in the map search_all returns
\* have the same actual_rank, for every keyword list and every strategy.
C27_RanksDistinct ==
    (Done /\ PositionsDistinct) =>
        \A kw \in DOMAIN all_results :
            \A j, k \in 1..Len(all_results[kw]) :
                all_results[kw][j].actual_rank = all_results[kw][k].actual_rank
                    => j = k


(* ---- C28: the delay slept before a retry ----------------------------- *)

\* The task goes on after its failed request: it sleeps or has posted again.
GoesOn(task) == task.st \in {"sleep", "inflight"}

\* The seconds to sleep after a failed request of kind k that was the n-th
\* request of its task: n * 2 after a 429, 1 after anything else.
ClaimedDelay(k, n) == IF k = "r429" THEN n * 2 ELSE 1

\* C28: in each of the three strategies, a task that goes on after a failed
\* request sleeps before it posts again: attempt_index * 2 seconds after a
\* 429 (2 after the first request, 4 after the second), 1 second after a
\* timeout, a network error or another status; and a request that is not the
\* first of its task is posted only out of such a sleep.
C28_DelayBeforeRetry ==
    [][\A i \in TaskIds :
          /\ (/\ resp'.task = i
              /\ resp'.kind # "ok"
              /\ i \in DOMAIN t'
              /\ GoesOn(t'[i]))
             => /\ t'[i].st = "sleep"
                /\ t'[i].delay = ClaimedDelay(resp'.kind, t[i].reqs)
          /\ (/\ i \in DOMAIN t'
              /\ t[i].reqs >= 1
              /\ t'[i].reqs = t[i].reqs + 1)
             => t[i].st = "sleep"]_vars

\* The same for the coroutines of StableSerpSearcher alone, where it holds.
C28_StableDelays ==
    [][strategy = "stable" =>
          \A i \in TaskIds :
             /\ (/\ resp'.task = i
                 /\ resp'.kind # "ok"
                 /\ i \in DOMAIN t'
                 /\ GoesOn(t'[i]))
                => /\ t'[i].st = "sleep"
                   /\ t'[i].delay = ClaimedDelay(resp'.kind, t[i].reqs)
             /\ (/\ i \in DOMAIN t'
                 /\ t[i].reqs >= 1
                 /\ t'[i].reqs = t[i].reqs + 1)
                => t[i].st = "sleep"]_vars


(* ---- C29: the three strategies give the same outcome ----------------- *)

\* C29: against a deterministic provider, a run that has returned has the
\* same map (same keys, same list for every keyword) and the same
\* success_count and fail_count as an earlier run of another strategy that
\* was given the same keyword list and the same max_pages.
C29_StrategiesAgree ==
    (/\ Done
     /\ reference # None
     /\ strategy # reference[1].strategy
     /\ keywords = reference[1].keywords
     /\ max_pages = reference[1].max_pages)
    => /\ all_results = reference[1].map
       /\ success_count = reference[1].success_count
       /\ fail_count = reference[1].fail_count

(* ---- C30: the counters count the most recent run --------------------- *)

\* The tasks of the run that have come to their outcome: to return
\* successfully (ok = TRUE) or to return a failure.
Outcomes(ok) ==
    {i \in TaskIds : t[i].st \in {"store", "returned", "collected"}
                     /\ t[i].success = ok}

\* C30: whatever runs the searcher object made before, during a run and
\* after it success_count and fail_count count tasks of that run only, and
\* when search_all has returned, success_count + fail_count is the number
\* of (keyword, page) tasks of the run.
C30_CountersCountLastRun ==
    pc \in {"running", "done"}
    => /\ success_count <= Cardinality(Outcomes(TRUE))
       /\ fail_count <= Cardinality(Outcomes(FALSE))
       /\ Done => success_count + fail_count = NumTasks

====
